---- MODULE Spec2Model ----
(***************************************************************************)
(* Model of the DeerAPI workflow node (n8n-nodes-deerapi).                 *)
(*                                                                         *)
(* The node's execute() walks the input items one after another.  For the  *)
(* text, image and video-create modes it collects binary attachments       *)
(* (collectBinaryFromNodes), extracts reference images from them           *)
(* (extractImagesFromBinary) and sends one request; the video 'retrieve'   *)
(* operation polls the job status.  The earlier versions of the node are   *)
(* modelled as operators for comparison with the current one.              *)
(***************************************************************************)
EXTENDS Integers, Sequences, FiniteSets, TLC

\* ------------------------------------------------------------------------
\* Bounds of the model
\* ------------------------------------------------------------------------

\* longest list of node names entered in 'sourceNodeNames'
MaxNodes == 3

\* ------------------------------------------------------------------------
\* Program constants
\* ------------------------------------------------------------------------

MaxAttempts == 40
PollIntervalMs == 15000
MaxImagesText == 1
MaxImagesImage == 3
MaxImagesVideo == 1

\* ------------------------------------------------------------------------
\* Strings: `data${n}`, split(','), trim(), startsWith('image/')
\* ------------------------------------------------------------------------

Digits == <<"0", "1", "2", "3", "4", "5", "6", "7", "8", "9">>

RECURSIVE NumStr(_)
\* decimal rendering of a natural number, as a template literal prints it
NumStr(n) ==
    IF n < 10 THEN Digits[n + 1]
    ELSE NumStr(n \div 10) \o Digits[(n % 10) + 1]

\* the template literal `data${n}`
DataN(n) == "data" \o NumStr(n)

\* A raw parameter string is a sequence of tokens: "," , " " or a word.
RECURSIVE Split(_, _, _)
\* raw.split(','): the segments between the commas, scanning from token k
Split(raw, k, cur) ==
    IF k > Len(raw) THEN <<cur>>
    ELSE IF raw[k] = "," THEN <<cur>> \o Split(raw, k + 1, <<>>)
    ELSE Split(raw, k + 1, Append(cur, raw[k]))

RECURSIVE TrimLeft(_)
TrimLeft(seg) ==
    IF seg # <<>> /\ Head(seg) = " " THEN TrimLeft(Tail(seg)) ELSE seg

RECURSIVE TrimRight(_)
TrimRight(seg) ==
    IF seg # <<>> /\ seg[Len(seg)] = " "
    THEN TrimRight(SubSeq(seg, 1, Len(seg) - 1)) ELSE seg

RECURSIVE Concat(_)
\* the string a segment of tokens spells
Concat(seg) == IF seg = <<>> THEN "" ELSE Head(seg) \o Concat(Tail(seg))

\* s.trim()
Trim(seg) == Concat(TrimRight(TrimLeft(seg)))

RECURSIVE MapTrim(_)
MapTrim(segs) ==
    IF segs = <<>> THEN <<>> ELSE <<Trim(Head(segs))>> \o MapTrim(Tail(segs))

\* input.split(',').map(s => s.trim()).filter(s => s !== '')
ParseNameList(raw) ==
    SelectSeq(MapTrim(Split(raw, 1, <<>>)), LAMBDA s : s # "")

\* mimeType?.startsWith('image/'); a mime type is <<type, subtype>>
IsImageMime(mimeType) == mimeType[1] = "image"

\* ------------------------------------------------------------------------
\* Binary attachments (IBinaryData) and the host's binary storage
\* ------------------------------------------------------------------------

\* no storage id / no inline data
NoId == ""
NoData == <<>>

\* Buffer.from(data, 'base64') and buffer.toString('base64')
Base64Decode(data) == <<"bytes", data[2]>>
Base64Encode(buffer) == <<"b64", buffer[2]>>

\* ids whose file the host's binary storage can read
StoredIds == {"s1", "s2"}

\* the bytes the storage keeps under an id
FileBytes(id) == <<"bytes", id>>

imgDisk == [fileName |-> "disk.png", mimeType |-> <<"image", "png">>,
            id |-> "s1", data |-> NoData]
imgMem == [fileName |-> "mem.jpg", mimeType |-> <<"image", "jpeg">>,
           id |-> NoId, data |-> <<"b64", "m1">>]
imgBoth == [fileName |-> "both.png", mimeType |-> <<"image", "png">>,
            id |-> "s2", data |-> <<"b64", "m2">>]
imgGone == [fileName |-> "gone.png", mimeType |-> <<"image", "png">>,
            id |-> "g1", data |-> NoData]
imgGoneInline == [fileName |-> "", mimeType |-> <<"image", "webp">>,
                  id |-> "g2", data |-> <<"b64", "m3">>]
imgEmpty == [fileName |-> "empty.png", mimeType |-> <<"image", "png">>,
             id |-> NoId, data |-> NoData]
pdfMem == [fileName |-> "doc.pdf", mimeType |-> <<"application", "pdf">>,
           id |-> NoId, data |-> <<"b64", "m4">>]

\* A binary object (Record<string, IBinaryData>) is the sequence of its
\* <<property name, attachment>> entries in insertion order.
Has(binary, name) == \E k \in 1..Len(binary) : binary[k][1] = name
Get(binary, name) ==
    binary[CHOOSE k \in 1..Len(binary) : binary[k][1] = name][2]
Keys(binary) == {binary[k][1] : k \in 1..Len(binary)}

\* binary[name] = value
Put(binary, name, value) ==
    IF Has(binary, name)
    THEN [k \in 1..Len(binary) |->
             IF binary[k][1] = name THEN <<name, value>> ELSE binary[k]]
    ELSE Append(binary, <<name, value>>)

\* an execution item: hasBinary is FALSE when the item has no binary field
Item(hasBinary, binary) == [hasBinary |-> hasBinary, binary |-> binary]

\* ------------------------------------------------------------------------
\* The workflow around the node: the other nodes and what they produced
\* ------------------------------------------------------------------------

Nodes == {"A", "B", "E", "N", "M"}

\* nodes for which workflowProxy.$(name).all() throws
MissingNodes == {"M"}

\* the items a node produced
NodeItems(nodeName) ==
    CASE nodeName = "A" ->
            << Item(TRUE, << <<"x", imgDisk>>, <<"y", pdfMem>> >>),
               Item(TRUE, << <<"z", imgMem>>, <<"data", imgBoth>> >>) >>
      [] nodeName = "B" ->
            << Item(TRUE, << <<"data", imgGone>>, <<"file", imgGoneInline>> >>) >>
      [] nodeName = "N" -> << Item(FALSE, <<>>) >>
      [] OTHER -> <<>>

\* the input items the node can be run on
InputChoices ==
    { << Item(TRUE, << <<"data", imgDisk>>, <<"data0", pdfMem>>,
                       <<"data1", imgMem>>, <<"data2", imgBoth>>,
                       <<"file", imgMem>> >>),
         Item(FALSE, <<>>) >>,
      << Item(TRUE, << <<"file", imgEmpty>>, <<"data1", imgGone>>,
                       <<"data", imgGoneInline>> >>),
         Item(TRUE, << <<"data", pdfMem>>, <<"data2", imgMem>> >>) >> }

\* the values of 'binaryPropertyName' the node can be run with
PropNameChoices ==
    { <<"data", ",", " ", "data0", ",", " ", "data1", ",", " ", "data2",
        ",", " ", "file", ",", " ", "attachment">>,
      <<" ", "file", " ", ",", ",", "data2", ",", "data", ",", "data">>,
      <<>> }

\* the default of 'binaryPropertyName'
DefaultPropNames ==
    <<"data", ",", " ", "data0", ",", " ", "data1", ",", " ", "data2",
      ",", " ", "file", ",", " ", "attachment">>

\* ------------------------------------------------------------------------
\* Host helpers used by the node
\* ------------------------------------------------------------------------

\* context.helpers.getBinaryStream(id) followed by binaryToBuffer(stream):
\* the stored bytes, or a thrown error when the storage cannot read the id
getBinaryStream(id) ==
    IF id \in StoredIds THEN [ok |-> TRUE, buffer |-> FileBytes(id)]
    ELSE [ok |-> FALSE, buffer |-> <<>>]

\* context.helpers.getBinaryDataBuffer(itemIndex, propName): the bytes of the
\* attachment the node's OWN input item holds under propName
getBinaryDataBuffer(inputItems, itemIndex, propName) ==
    LET item == inputItems[itemIndex + 1] IN
    IF ~item.hasBinary \/ ~Has(item.binary, propName)
    THEN [ok |-> FALSE, buffer |-> <<>>]
    ELSE LET binaryData == Get(item.binary, propName) IN
         IF binaryData.id # NoId THEN getBinaryStream(binaryData.id)
         ELSE IF binaryData.data # NoData
              THEN [ok |-> TRUE, buffer |-> Base64Decode(binaryData.data)]
              ELSE [ok |-> FALSE, buffer |-> <<>>]

\* ------------------------------------------------------------------------
\* collectBinaryFromNodes
\* ------------------------------------------------------------------------

\* CurrentBinary reading items[0] instead of items[itemIndex]
CurrentBinaryOfFirstItem(inputItems, itemIndex) ==
    IF 0 < Len(inputItems) /\ inputItems[1].hasBinary
    THEN inputItems[1].binary
    ELSE <<>>

\* items[itemIndex]?.binary ? { ...items[itemIndex].binary } : {}
CurrentBinary(inputItems, itemIndex) ==
    IF itemIndex < Len(inputItems) /\ inputItems[itemIndex + 1].hasBinary
    THEN inputItems[itemIndex + 1].binary
    ELSE <<>>

\* FirstPropName numbering with `data${binaryIndex}`
FirstPropNameOffByOne(binaryIndex) ==
    IF binaryIndex = 0 THEN "data" ELSE DataN(binaryIndex)

\* the first name tried for an entry: 'data', then data0, data1, ...
FirstPropName(binaryIndex) ==
    IF binaryIndex = 0 THEN "data" ELSE DataN(binaryIndex - 1)

RECURSIVE SkipUsed(_, _, _)
\* while (mergedBinary[newPropName]) { binaryIndex++; newPropName = ... }
SkipUsed(mergedBinary, binaryIndex, newPropName) ==
    IF Has(mergedBinary, newPropName)
    THEN SkipUsed(mergedBinary, binaryIndex + 1, DataN(binaryIndex))
    ELSE [binaryIndex |-> binaryIndex, newPropName |-> newPropName]

\* the pre-read of one merged attachment into the buffer map
PreRead(bufferMap, newPropName, binaryData) ==
    IF binaryData.id # NoId
    THEN LET r == getBinaryStream(binaryData.id) IN
         IF r.ok THEN Put(bufferMap, newPropName, r.buffer)
         ELSE IF binaryData.data # NoData
              THEN Put(bufferMap, newPropName, Base64Decode(binaryData.data))
              ELSE bufferMap
    ELSE IF binaryData.data # NoData
         THEN Put(bufferMap, newPropName, Base64Decode(binaryData.data))
         ELSE bufferMap

\* MergeEntry without the collision loop, advancing the index only there
MergeEntryNoSkip(st, binaryData) ==
    LET newPropName == FirstPropName(st.binaryIndex)
    IN [st EXCEPT
          !.mergedBinary = Put(st.mergedBinary, newPropName, binaryData),
          !.bufferMap = PreRead(st.bufferMap, newPropName, binaryData)]

\* one turn of the inner loop: name the attachment, store it, pre-read it
MergeEntry(st, binaryData) ==
    LET free == SkipUsed(st.mergedBinary, st.binaryIndex,
                         FirstPropName(st.binaryIndex))
    IN [st EXCEPT
          !.mergedBinary = Put(st.mergedBinary, free.newPropName, binaryData),
          !.bufferMap = PreRead(st.bufferMap, free.newPropName, binaryData),
          !.binaryIndex = free.binaryIndex + 1]

RECURSIVE MergeEntries(_, _, _)
\* for (const [, binaryData] of Object.entries(nodeItem.binary))
MergeEntries(st, entries, k) ==
    IF k > Len(entries) THEN st
    ELSE MergeEntries(MergeEntry(st, entries[k][2]), entries, k + 1)

\* MergeNode always taking the first item of the node
MergeNodeFirstItem(st, nodeName, itemIndex) ==
    LET looked == [st EXCEPT !.consulted = Append(st.consulted, nodeName)] IN
    IF nodeName \in MissingNodes THEN looked
    ELSE LET nodeItems == NodeItems(nodeName) IN
         IF Len(nodeItems) = 0 THEN looked
         ELSE LET nodeItem == nodeItems[1]
              IN IF ~nodeItem.hasBinary THEN looked
                 ELSE MergeEntries(looked, nodeItem.binary, 1)

\* one turn of the loop over the target node names
MergeNode(st, nodeName, itemIndex) ==
    LET looked == [st EXCEPT !.consulted = Append(st.consulted, nodeName)] IN
    IF nodeName \in MissingNodes THEN looked
    ELSE LET nodeItems == NodeItems(nodeName) IN
         IF Len(nodeItems) = 0 THEN looked
         ELSE LET targetItemIndex ==
                      IF itemIndex < Len(nodeItems) THEN itemIndex ELSE 0
                  nodeItem == nodeItems[targetItemIndex + 1]
              IN IF ~nodeItem.hasBinary THEN looked
                 ELSE MergeEntries(looked, nodeItem.binary, 1)

RECURSIVE MergeNodesTryOutside(_, _, _, _)
\* MergeNodes with the try/catch around the loop instead of inside it
MergeNodesTryOutside(st, targetNodeNames, k, itemIndex) ==
    IF k > Len(targetNodeNames) THEN st
    ELSE IF targetNodeNames[k] \in MissingNodes
    THEN [st EXCEPT !.consulted = Append(st.consulted, targetNodeNames[k])]
    ELSE MergeNodesTryOutside(MergeNode(st, targetNodeNames[k], itemIndex),
                              targetNodeNames, k + 1, itemIndex)

RECURSIVE MergeNodes(_, _, _, _)
\* for (const nodeName of targetNodeNames)
MergeNodes(st, targetNodeNames, k, itemIndex) ==
    IF k > Len(targetNodeNames) THEN st
    ELSE MergeNodes(MergeNode(st, targetNodeNames[k], itemIndex),
                    targetNodeNames, k + 1, itemIndex)

\* collectBinaryFromNodes without the fallback to the current input
collectBinaryNoFallback(inputItems, itemIndex, sourceMode, specifiedNodes) ==
    LET empty == [binaryIndex |-> 0, mergedBinary |-> <<>>,
                  bufferMap |-> <<>>, consulted |-> <<>>]
    IN IF sourceMode = "current"
       THEN [binary |-> CurrentBinary(inputItems, itemIndex),
             bufferMap |-> <<>>, mergedBinary |-> <<>>, consulted |-> <<>>]
       ELSE LET st == MergeNodes(empty, specifiedNodes, 1, itemIndex) IN
            [binary |-> st.mergedBinary,
             bufferMap |-> st.bufferMap,
             mergedBinary |-> st.mergedBinary,
             consulted |-> st.consulted]

\* The result also reports the merged mapping before the fallback and the
\* node names that were looked up, in order.
collectBinaryFromNodes(inputItems, itemIndex, sourceMode, specifiedNodes) ==
    LET empty == [binaryIndex |-> 0, mergedBinary |-> <<>>,
                  bufferMap |-> <<>>, consulted |-> <<>>]
    IN IF sourceMode = "current"
       THEN [binary |-> CurrentBinary(inputItems, itemIndex),
             bufferMap |-> <<>>, mergedBinary |-> <<>>, consulted |-> <<>>]
       ELSE LET st == MergeNodes(empty, specifiedNodes, 1, itemIndex) IN
            [binary |-> IF Len(st.mergedBinary) = 0
                        THEN CurrentBinary(inputItems, itemIndex)
                        ELSE st.mergedBinary,
             bufferMap |-> st.bufferMap,
             mergedBinary |-> st.mergedBinary,
             consulted |-> st.consulted]

\* ------------------------------------------------------------------------
\* extractImagesFromBinary
\* ------------------------------------------------------------------------

\* ReadBuffer asking the storage before looking at the pre-read buffers
ReadBufferIdFirst(inputItems, itemIndex, binaryData, propName, bufferMap) ==
    IF binaryData.id # NoId
    THEN LET r == getBinaryDataBuffer(inputItems, itemIndex, propName) IN
         [ok |-> r.ok, skip |-> FALSE, buffer |-> r.buffer]
    ELSE IF Has(bufferMap, propName)
    THEN [ok |-> TRUE, skip |-> FALSE, buffer |-> Get(bufferMap, propName)]
    ELSE IF binaryData.data # NoData
    THEN [ok |-> TRUE, skip |-> FALSE,
          buffer |-> Base64Decode(binaryData.data)]
    ELSE [ok |-> FALSE, skip |-> TRUE, buffer |-> <<>>]

\* the buffer of one attachment: pre-read buffer, else storage, else inline
ReadBuffer(inputItems, itemIndex, binaryData, propName, bufferMap) ==
    IF Has(bufferMap, propName)
    THEN [ok |-> TRUE, skip |-> FALSE, buffer |-> Get(bufferMap, propName)]
    ELSE IF binaryData.id # NoId
    THEN LET r == getBinaryDataBuffer(inputItems, itemIndex, propName) IN
         [ok |-> r.ok, skip |-> FALSE, buffer |-> r.buffer]
    ELSE IF binaryData.data # NoData
    THEN [ok |-> TRUE, skip |-> FALSE,
          buffer |-> Base64Decode(binaryData.data)]
    ELSE [ok |-> FALSE, skip |-> TRUE, buffer |-> <<>>]

\* the ImageData pushed for an attachment; propName records where it was read
ImageData(propName, binaryData, buffer) ==
    [base64 |-> Base64Encode(buffer), mimeType |-> binaryData.mimeType,
     fileName |-> binaryData.fileName, buffer |-> buffer,
     propName |-> propName]

RECURSIVE ExtractLoopOffByOne(_, _, _, _, _, _, _, _)
\* ExtractLoop breaking on images.length > maxImages
ExtractLoopOffByOne(inputItems, itemIndex, binary, propNames, maxImages, bufferMap, k, images) ==
    IF k > Len(propNames) \/ Len(images) > maxImages THEN images
    ELSE LET propName == propNames[k]
             next(imgs) == ExtractLoopOffByOne(inputItems, itemIndex, binary,
                               propNames, maxImages, bufferMap, k + 1, imgs)
         IN IF ~Has(binary, propName) THEN next(images)
            ELSE LET binaryData == Get(binary, propName) IN
                 IF ~IsImageMime(binaryData.mimeType) THEN next(images)
                 ELSE LET r == ReadBuffer(inputItems, itemIndex, binaryData,
                                          propName, bufferMap)
                      IN IF r.ok
                         THEN next(Append(images,
                                   ImageData(propName, binaryData, r.buffer)))
                         ELSE next(images)

RECURSIVE ExtractLoopStopOnError(_, _, _, _, _, _, _, _)
\* ExtractLoop with the try/catch around the loop: a failed read ends it
ExtractLoopStopOnError(inputItems, itemIndex, binary, propNames, maxImages, bufferMap, k, images) ==
    IF k > Len(propNames) \/ Len(images) >= maxImages THEN images
    ELSE LET propName == propNames[k]
             next(imgs) == ExtractLoopStopOnError(inputItems, itemIndex,
                               binary, propNames, maxImages, bufferMap,
                               k + 1, imgs)
         IN IF ~Has(binary, propName) THEN next(images)
            ELSE LET binaryData == Get(binary, propName) IN
                 IF ~IsImageMime(binaryData.mimeType) THEN next(images)
                 ELSE LET r == ReadBuffer(inputItems, itemIndex, binaryData,
                                          propName, bufferMap)
                      IN IF r.ok
                         THEN next(Append(images,
                                   ImageData(propName, binaryData, r.buffer)))
                         ELSE IF r.skip THEN next(images) ELSE images

RECURSIVE ExtractLoop(_, _, _, _, _, _, _, _)
\* for (const propName of propNames)
ExtractLoop(inputItems, itemIndex, binary, propNames, maxImages, bufferMap, k, images) ==
    IF k > Len(propNames) \/ Len(images) >= maxImages THEN images
    ELSE LET propName == propNames[k]
             next(imgs) == ExtractLoop(inputItems, itemIndex, binary,
                                       propNames, maxImages, bufferMap,
                                       k + 1, imgs)
         IN IF ~Has(binary, propName) THEN next(images)
            ELSE LET binaryData == Get(binary, propName) IN
                 IF ~IsImageMime(binaryData.mimeType) THEN next(images)
                 ELSE LET r == ReadBuffer(inputItems, itemIndex, binaryData,
                                          propName, bufferMap)
                      IN IF r.ok
                         THEN next(Append(images,
                                   ImageData(propName, binaryData, r.buffer)))
                         ELSE next(images)

\* extractImagesFromBinary walking the entries of the binary object, in
\* their order, instead of the list of names
extractImagesInKeyOrder(inputItems, itemIndex, binary, propNames, maxImages, bufferMap) ==
    LET keys == [k \in 1..Len(binary) |-> binary[k][1]]
        Listed(name) == \E k \in 1..Len(propNames) : propNames[k] = name
    IN ExtractLoop(inputItems, itemIndex, binary, SelectSeq(keys, Listed),
                   maxImages, bufferMap, 1, <<>>)

extractImagesFromBinary(inputItems, itemIndex, binary, propNames, maxImages, bufferMap) ==
    ExtractLoop(inputItems, itemIndex, binary, propNames, maxImages,
                bufferMap, 1, <<>>)

\* ------------------------------------------------------------------------
\* Earlier versions of the node
\* ------------------------------------------------------------------------

\* what a request forwards of an image: its mime type and its bytes
Forwarded(images) ==
    [k \in 1..Len(images) |->
        [mimeType |-> images[k].mimeType, buffer |-> images[k].buffer]]

RECURSIVE OldProbe(_, _, _, _, _, _, _)
\* The loops of the version without source modes: for (const p of propNames)
\* over items[i].binary, reading with getBinaryDataBuffer outside any try.
\* onlyImages is the startsWith('image/') test of the text and video loops,
\* which stop at the first hit; the image loops take up to three of any type.
OldProbe(inputItems, i, propNames, k, maxImages, onlyImages, images) ==
    IF k > Len(propNames) THEN [images |-> images, error |-> FALSE]
    ELSE LET p == propNames[k]
             binary == inputItems[i + 1].binary
             next == OldProbe(inputItems, i, propNames, k + 1, maxImages,
                              onlyImages, images)
         IN IF ~Has(binary, p) \/ Len(images) >= maxImages THEN next
            ELSE IF onlyImages /\ ~IsImageMime(Get(binary, p).mimeType)
            THEN next
            ELSE LET r == getBinaryDataBuffer(inputItems, i, p) IN
                 IF ~r.ok THEN [images |-> images, error |-> TRUE]
                 ELSE OldProbe(inputItems, i, propNames, k + 1, maxImages,
                               onlyImages,
                               Append(images,
                                      [mimeType |-> Get(binary, p).mimeType,
                                       buffer |-> r.buffer]))

\* the reference images of the version without source modes, per mode
OldExecuteImages(inputItems, i, propNames, nodeMode) ==
    IF ~inputItems[i + 1].hasBinary THEN [images |-> <<>>, error |-> FALSE]
    ELSE IF nodeMode = "image"
    THEN OldProbe(inputItems, i, propNames, 1, 3, FALSE, <<>>)
    ELSE OldProbe(inputItems, i, propNames, 1, 1, TRUE, <<>>)

\* image mode of the node without source modes: up to three of the listed
\* attachments of the input item, of any type
ImageModeParts(inputItems, i, propNames) ==
    IF ~inputItems[i + 1].hasBinary THEN [images |-> <<>>, error |-> FALSE]
    ELSE OldProbe(inputItems, i, propNames, 1, 3, FALSE, <<>>)

RECURSIVE extractFromCurrentInput(_, _, _, _, _, _)
\* collectImagesFromNodes of version 1.5.0, helper for the current input
extractFromCurrentInput(inputItems, itemIndex, propNames, maxImages, k, images) ==
    IF ~inputItems[itemIndex + 1].hasBinary THEN images
    ELSE IF k > Len(propNames) \/ Len(images) >= maxImages THEN images
    ELSE LET propName == propNames[k]
             binary == inputItems[itemIndex + 1].binary
             next(imgs) == extractFromCurrentInput(inputItems, itemIndex,
                               propNames, maxImages, k + 1, imgs)
         IN IF ~Has(binary, propName) THEN next(images)
            ELSE IF ~IsImageMime(Get(binary, propName).mimeType)
            THEN next(images)
            ELSE LET r == getBinaryDataBuffer(inputItems, itemIndex, propName)
                 IN IF r.ok
                    THEN next(Append(images,
                              [mimeType |-> Get(binary, propName).mimeType,
                               buffer |-> r.buffer]))
                    ELSE next(images)

\* collectImagesFromNodes of version 1.5.0 with sourceMode 'current'
collectImagesFromNodes(inputItems, itemIndex, propNames, maxImages) ==
    extractFromCurrentInput(inputItems, itemIndex, propNames, maxImages, 1,
                            <<>>)

\* ------------------------------------------------------------------------
\* The designed collectBinaryFromNodes, with its source mode 'all'
\* ------------------------------------------------------------------------

\* the node itself and the nodes a workflow can put upstream of it, in an
\* order every connection respects (a connection leads from a later node of
\* the list to an earlier one or to the node itself)
ThisNode == "DeerAPI"
UpstreamNodes == <<"A", "B", "N">>

Range(seq) == {seq[k] : k \in 1..Len(seq)}

\* context.getExecuteData() in a workflow wf (node |-> the nodes connected
\* to its input): source.main has one input, fed by the direct predecessors
getExecuteData(wf) == [source |-> [main |-> <<wf[ThisNode]>>]]

RECURSIVE VisitSources(_, _, _)
\* for (const src of sources): previousNode is added unless visited
VisitSources(sources, k, visitedNodes) ==
    IF k > Len(sources) THEN visitedNodes
    ELSE VisitSources(sources, k + 1,
                      IF sources[k] \in Range(visitedNodes) THEN visitedNodes
                      ELSE Append(visitedNodes, sources[k]))

RECURSIVE VisitMain(_, _, _)
\* for (const sources of executeData.source.main)
VisitMain(main, k, visitedNodes) ==
    IF k > Len(main) THEN visitedNodes
    ELSE VisitMain(main, k + 1, VisitSources(main[k], 1, visitedNodes))

\* targetNodeNames of the design: Array.from(visitedNodes) in mode 'all'
DesignTargetNodeNames(sourceMode, specifiedNodes, executeData) ==
    IF sourceMode = "specified" THEN specifiedNodes
    ELSE IF sourceMode = "all"
    THEN VisitMain(executeData.source.main, 1, <<>>)
    ELSE <<>>

\* the designed collectBinaryFromNodes; it has no pre-read buffers
DesignCollectBinaryFromNodes(inputItems, itemIndex, sourceMode, specifiedNodes, executeData) ==
    LET empty == [binaryIndex |-> 0, mergedBinary |-> <<>>,
                  bufferMap |-> <<>>, consulted |-> <<>>]
        targetNodeNames == DesignTargetNodeNames(sourceMode, specifiedNodes,
                                                 executeData)
    IN IF sourceMode = "current"
       THEN [binary |-> CurrentBinary(inputItems, itemIndex),
             targetNodeNames |-> <<>>]
       ELSE LET st == MergeNodes(empty, targetNodeNames, 1, itemIndex) IN
            [binary |-> IF Len(st.mergedBinary) = 0
                        THEN CurrentBinary(inputItems, itemIndex)
                        ELSE st.mergedBinary,
             targetNodeNames |-> st.consulted]

\* ------------------------------------------------------------------------
\* The parameters of the node and their displayOptions
\* ------------------------------------------------------------------------

Modes == {"text", "image", "video", "embeddings"}
ImageModels == {"gemini-3-pro-image", "gemini-2.5-flash-image",
                "doubao-seedream-4-5-251128"}
VideoOperations == {"create", "remix", "retrieve", "download", "list"}

\* a parameter without a value, and the value of a free-text parameter
Absent == "undefined"
Text == "string"

Always == [show |-> {}, hide |-> {}]
Show(conditions) == [show |-> conditions, hide |-> {}]

Property(name, options, default, displayOptions) ==
    [name |-> name, options |-> options, default |-> default,
     displayOptions |-> displayOptions]

\* displayOptions of 'binarySourceMode' without the hide condition
BinarySourceModeDisplayNoHide ==
    [show |-> {<<"mode", {"text", "image", "video"}>>}, hide |-> {}]

BinarySourceModeDisplay ==
    [show |-> {<<"mode", {"text", "image", "video"}>>},
     hide |-> {<<"videoOperation", {"remix", "retrieve", "download", "list"}>>}]

SourceNodeNamesDisplay ==
    [show |-> {<<"binarySourceMode", {"specified"}>>}, hide |-> {}]

\* description.properties, in the order of their declaration
Properties ==
    << Property("mode", Modes, "text", Always),
       Property("videoOperation", VideoOperations, "create",
                Show({<<"mode", {"video"}>>})),
       Property("imageModel", ImageModels, "gemini-3-pro-image",
                Show({<<"mode", {"image"}>>})),
       Property("videoModel", {"sora-2-all", "sora-2-pro-all"}, "sora-2-all",
                Show({<<"mode", {"video"}>>, <<"videoOperation", {"create"}>>})),
       Property("modelId", {Text}, Text, Show({<<"mode", {"text"}>>})),
       Property("systemPrompt", {Text}, Text, Show({<<"mode", {"text"}>>})),
       Property("userPrompt", {Text}, Text,
                Show({<<"mode", {"text", "image"}>>})),
       Property("storyboardMode", {"true", "false"}, "false",
                Show({<<"mode", {"video"}>>, <<"videoOperation", {"create"}>>})),
       Property("storyboardShots", {Text}, Text,
                Show({<<"mode", {"video"}>>, <<"videoOperation", {"create"}>>,
                      <<"storyboardMode", {"true"}>>})),
       Property("videoPrompt", {Text}, Text,
                [show |-> {<<"mode", {"video"}>>,
                           <<"videoOperation", {"create", "remix"}>>},
                 hide |-> {<<"storyboardMode", {"true"}>>}]),
       Property("videoSize",
                {"720x1280", "1280x720", "1024x1792", "1792x1024"}, "720x1280",
                Show({<<"mode", {"video"}>>, <<"videoOperation", {"create"}>>})),
       Property("videoId", {Text}, Text,
                Show({<<"mode", {"video"}>>,
                      <<"videoOperation", {"remix", "retrieve", "download"}>>})),
       Property("smartWait", {"true", "false"}, "true",
                Show({<<"mode", {"video"}>>, <<"videoOperation", {"retrieve"}>>})),
       Property("imageSize", {"1K", "2K", "4K"}, "1K",
                Show({<<"mode", {"image"}>>,
                      <<"imageModel", {"gemini-3-pro-image"}>>})),
       Property("imageSize", {"2K", "4K"}, "2K",
                Show({<<"mode", {"image"}>>,
                      <<"imageModel", {"doubao-seedream-4-5-251128"}>>})),
       Property("aspectRatio",
                {"1:1", "3:2", "2:3", "16:9", "9:16", "3:4", "4:3", "4:5",
                 "5:4", "21:9"}, "1:1",
                Show({<<"mode", {"image"}>>,
                      <<"imageModel", {"gemini-3-pro-image",
                                       "gemini-2.5-flash-image"}>>})),
       Property("embeddingModel",
                {"text-embedding-3-large", "text-embedding-3-small"},
                "text-embedding-3-large", Show({<<"mode", {"embeddings"}>>})),
       Property("embeddingInput", {Text}, Text,
                Show({<<"mode", {"embeddings"}>>})),
       Property("binarySourceMode", {"current", "specified"}, "current",
                BinarySourceModeDisplay),
       Property("sourceNodeNames", {Text}, Text, SourceNodeNamesDisplay),
       Property("binaryPropertyName", {Text}, Text,
                [show |-> {<<"mode", {"text", "image", "video"}>>},
                 hide |-> {<<"videoOperation",
                             {"remix", "retrieve", "download", "list"}>>}]) >>

ParameterNames == {Properties[k].name : k \in 1..Len(Properties)}

NoValues == [name \in ParameterNames |-> Absent]

\* the host's rule for displayOptions: every show condition is met by the
\* value of the parameter it names, and no hide condition is; a parameter
\* without a value meets no condition
displayParameter(values, displayOptions) ==
    /\ \A c \in displayOptions.show : values[c[1]] \in c[2]
    /\ \A c \in displayOptions.hide : values[c[1]] \notin c[2]

RECURSIVE getNodeParameters(_, _, _)
\* the host's pass over the properties after a change: a displayed parameter
\* keeps its value or takes its default, a hidden one loses its value
getNodeParameters(values, k, out) ==
    IF k > Len(Properties) THEN out
    ELSE LET p == Properties[k] IN
         IF displayParameter(out, p.displayOptions)
         THEN getNodeParameters(values, k + 1,
                  [out EXCEPT ![p.name] = IF values[p.name] \in p.options
                                           THEN values[p.name]
                                           ELSE p.default])
         ELSE getNodeParameters(values, k + 1, out)

\* ------------------------------------------------------------------------
\* State of one run of execute()
\* ------------------------------------------------------------------------

VARIABLES
    items,               \* getInputData()
    mode,                \* getNodeParameter('mode', 0), read before the loop
    modeParameter,       \* what parameter 'mode' resolves to for each item
    videoOperation,      \* parameter 'videoOperation'
    imageModel,          \* parameter 'imageModel'
    smartWait,           \* parameter 'smartWait'
    binarySourceMode,    \* parameter 'binarySourceMode'
    sourceNodeNames,     \* parameter 'sourceNodeNames', raw
    binaryPropertyName,  \* parameter 'binaryPropertyName', raw
    continueOnFail,      \* this.continueOnFail()
    workflow,            \* the connections of the workflow, for the design
    designed,            \* result of the designed collectBinaryFromNodes
    nodeValues,          \* the parameter values of the node in the editor
    i,                   \* index of the item being processed
    pc,                  \* position in execute()
    returnData,          \* the output items pushed so far
    collected,           \* result of collectBinaryFromNodes for item i
    extractedImages,     \* result of extractImagesFromBinary for item i
    request,             \* the last request issued
    inflight,            \* requests issued and not yet answered
    attempt,             \* loop counter of the smart wait
    res,                 \* last status response of the retrieve operation
    requests,            \* status requests issued for item i
    waited,              \* milliseconds slept for item i
    firstTerminal        \* first completed/failed response for item i

params == <<items, mode, modeParameter, videoOperation, imageModel, smartWait,
            binarySourceMode, sourceNodeNames, binaryPropertyName,
            continueOnFail, workflow, designed, nodeValues>>

polling == <<attempt, res, requests, waited, firstTerminal>>

vars == <<params, i, pc, returnData, collected, extractedImages, request,
          inflight, polling>>

None == [status |-> "none", n |-> 0]
NoRequest == [kind |-> "none", item |-> 0, images |-> <<>>]
NothingCollected == [binary |-> <<>>, bufferMap |-> <<>>,
                     mergedBinary |-> <<>>, consulted |-> <<>>]
NotDesigned == [binary |-> <<>>, targetNodeNames |-> <<>>]
NoWorkflow == [n \in {ThisNode} \cup Range(UpstreamNodes) |-> <<>>]

Statuses == {"in_progress", "completed", "failed"}
TerminalStatuses == {"completed", "failed"}

\* the lists of node names a user can enter, and the string that spells one
NodeLists == UNION {[1..n -> Nodes] : n \in 0..MaxNodes}

RECURSIVE JoinNames(_)
JoinNames(list) ==
    IF list = <<>> THEN <<>>
    ELSE IF Len(list) = 1 THEN <<list[1]>>
    ELSE <<list[1], ",", " ">> \o JoinNames(Tail(list))

\* the modes whose requests take reference images
UsesBinary == mode \in {"text", "image"}
                \/ (mode = "video" /\ videoOperation = "create")

InitBinary ==
    /\ mode \in {"text", "image", "video"}
    /\ videoOperation = "create"
    /\ imageModel \in IF mode = "image" THEN ImageModels
                      ELSE {"gemini-3-pro-image"}
    /\ smartWait = TRUE
    /\ binarySourceMode \in {"current", "specified"}
    /\ sourceNodeNames \in IF binarySourceMode = "specified"
                           THEN {JoinNames(l) : l \in NodeLists}
                           ELSE {<<>>}
    /\ binaryPropertyName \in PropNameChoices

InitOther ==
    /\ \/ mode = "embeddings" /\ videoOperation = "create" /\ smartWait = TRUE
       \/ /\ mode = "video"
          /\ videoOperation \in VideoOperations \ {"create"}
          /\ smartWait \in IF videoOperation = "retrieve" THEN BOOLEAN
                           ELSE {TRUE}
    /\ imageModel = "gemini-3-pro-image"
    /\ binarySourceMode = "current"
    /\ sourceNodeNames = <<>>
    /\ binaryPropertyName = DefaultPropNames

Init ==
    /\ items \in InputChoices
    /\ continueOnFail \in BOOLEAN
    /\ InitBinary \/ InitOther
    /\ workflow = NoWorkflow
    /\ designed = NotDesigned
    /\ nodeValues = NoValues
    \* 'mode' may be an expression over the item; the variation is explored
    \* with the default source mode, outside the video mode
    /\ modeParameter \in
           {f \in [1..Len(items) -> Modes] :
               /\ f[1] = mode
               /\ (binarySourceMode # "current" \/ mode = "video")
                      => \A k \in 1..Len(items) : f[k] = mode}
    /\ i = 0
    /\ pc = "loop"
    /\ returnData = <<>>
    /\ collected = NothingCollected
    /\ extractedImages = <<>>
    /\ request = NoRequest
    /\ inflight = 0
    /\ attempt = 0
    /\ res = None
    /\ requests = 0
    /\ waited = 0
    /\ firstTerminal = None

\* ------------------------------------------------------------------------
\* execute(): the loop over the input items
\* ------------------------------------------------------------------------

\* the maxImages argument each mode passes to extractImagesFromBinary
MaxImagesOf(nodeMode) ==
    CASE nodeMode = "text" -> MaxImagesText
      [] nodeMode = "image" -> MaxImagesImage
      [] OTHER -> MaxImagesVideo

IsGemini(model) ==
    model \in {"gemini-3-pro-image", "gemini-2.5-flash-image"}

\* the endpoint a request of the current configuration goes to
RequestKind ==
    CASE mode = "text" -> "chat/completions"
      [] mode = "image" /\ IsGemini(imageModel) -> "generateContent"
      [] mode = "image" -> "images/generations"
      [] mode = "embeddings" -> "embeddings"
      [] OTHER -> videoOperation

\* the reference images a request carries
RequestImages(images) ==
    LET asBase64 == [k \in 1..Len(images) |->
                        [mimeType |-> images[k].mimeType,
                         data |-> images[k].base64]]
        asBuffer == [k \in 1..Len(images) |->
                        [mimeType |-> images[k].mimeType,
                         data |-> images[k].buffer]]
    IN CASE mode = "text" ->
                IF Len(images) > 0 THEN <<asBase64[1]>> ELSE <<>>
         [] mode = "image" -> asBase64
         [] mode = "video" /\ videoOperation = "create" ->
                IF Len(images) > 0 THEN <<asBuffer[1]>> ELSE <<>>
         [] OTHER -> <<>>

\* returnData.push(item), then the next turn of the loop
Push(item) ==
    /\ returnData' = Append(returnData, item)
    /\ i' = i + 1
    /\ pc' = "loop"

\* Catch rethrowing whatever continueOnFail() says
CatchRethrow(message) ==
    /\ pc' = "thrown"
    /\ UNCHANGED <<i, returnData>>

\* the catch block of the loop body
Catch(message) ==
    IF continueOnFail
    THEN Push([json |-> [error |-> message], hasBinary |-> FALSE])
    ELSE /\ pc' = "thrown"
         /\ UNCHANGED <<i, returnData>>

\* top of the loop body for item i
StartItem ==
    /\ pc = "loop"
    /\ i < Len(items)
    /\ pc' = IF UsesBinary THEN "collect"
             ELSE IF mode = "video" /\ videoOperation = "retrieve" /\ smartWait
                  THEN "poll"
                  ELSE "request"
    /\ collected' = NothingCollected
    /\ extractedImages' = <<>>
    /\ attempt' = 0
    /\ res' = None
    /\ requests' = 0
    /\ waited' = 0
    /\ firstTerminal' = None
    /\ UNCHANGED <<params, i, returnData, request, inflight>>

\* return [returnData]
Return ==
    /\ pc = "loop"
    /\ i = Len(items)
    /\ pc' = "done"
    /\ UNCHANGED <<params, i, returnData, collected, extractedImages,
                   request, inflight, polling>>

\* await collectBinaryFromNodes(this, i, binarySourceMode, specifiedNodes)
Collect ==
    /\ pc = "collect"
    /\ collected' = collectBinaryFromNodes(items, i, binarySourceMode,
                                           ParseNameList(sourceNodeNames))
    /\ pc' = "extract"
    /\ UNCHANGED <<params, i, returnData, extractedImages, request,
                   inflight, polling>>

\* await extractImagesFromBinary(this, i, collectedBinary, propNames, n, bufferMap)
Extract ==
    /\ pc = "extract"
    /\ extractedImages' =
           extractImagesFromBinary(items, i, collected.binary,
                                   ParseNameList(binaryPropertyName),
                                   MaxImagesOf(mode), collected.bufferMap)
    /\ pc' = "request"
    /\ UNCHANGED <<params, i, returnData, collected, request, inflight,
                   polling>>

\* SendRequest without the await: the loop moves on at once
SendRequestNoAwait ==
    /\ pc = "request"
    /\ request' = [kind |-> RequestKind, item |-> i,
                   images |-> RequestImages(extractedImages)]
    /\ inflight' = inflight + 1
    /\ i' = i + 1
    /\ pc' = "loop"
    /\ UNCHANGED <<params, returnData, collected, extractedImages, polling>>

\* this.helpers.request(...) is issued
SendRequest ==
    /\ pc = "request"
    /\ request' = [kind |-> RequestKind, item |-> i,
                   images |-> RequestImages(extractedImages)]
    /\ inflight' = inflight + 1
    /\ pc' = "await"
    /\ UNCHANGED <<params, i, returnData, collected, extractedImages,
                   polling>>

\* the request resolves with a usable response
ReceiveOk ==
    /\ pc = "await"
    /\ inflight' = inflight - 1
    /\ IF mode = "image" \/ (mode = "video" /\ videoOperation = "download")
       THEN Push([json |-> [status |-> "success"], hasBinary |-> TRUE])
       ELSE Push([json |-> [response |-> request.kind, item |-> i],
                  hasBinary |-> FALSE])
    /\ UNCHANGED <<params, collected, extractedImages, request, polling>>

\* the image endpoint answers without an image: throw new Error(...)
ReceiveNoImage ==
    /\ pc = "await"
    /\ mode = "image"
    /\ inflight' = inflight - 1
    /\ Catch("no image returned")
    /\ UNCHANGED <<params, collected, extractedImages, request, polling>>

\* the request rejects
ReceiveError ==
    /\ pc = "await"
    /\ inflight' = inflight - 1
    /\ Catch("request failed")
    /\ UNCHANGED <<params, collected, extractedImages, request, polling>>

\* ------------------------------------------------------------------------
\* video 'retrieve' with smart wait
\* ------------------------------------------------------------------------

\* the body of for (let attempt = 0; attempt < 40; attempt++): the status
\* request is issued (the loop condition is decided in StartItem and PollWait)
PollSend ==
    /\ pc = "poll"
    /\ request' = [kind |-> "retrieve", item |-> i, images |-> <<>>]
    /\ requests' = requests + 1
    /\ inflight' = inflight + 1
    /\ pc' = "pollawait"
    /\ UNCHANGED <<params, i, returnData, collected, extractedImages,
                   attempt, res, waited, firstTerminal>>

\* PollReceive breaking out of the loop on 'completed' only
PollReceiveCompletedOnly ==
    /\ pc = "pollawait"
    /\ inflight' = inflight - 1
    /\ \E status \in Statuses :
          /\ res' = [status |-> status, n |-> requests]
          /\ IF status = "completed"
             THEN /\ firstTerminal' = res'
                  /\ Push([json |-> res', hasBinary |-> FALSE])
             ELSE /\ pc' = "wait"
                  /\ UNCHANGED <<i, returnData, firstTerminal>>
    /\ UNCHANGED <<params, collected, extractedImages, request, attempt,
                   requests, waited>>

\* a status response arrives; completed or failed breaks out of the loop
PollReceive ==
    /\ pc = "pollawait"
    /\ inflight' = inflight - 1
    /\ \E status \in Statuses :
          /\ res' = [status |-> status, n |-> requests]
          /\ IF status \in TerminalStatuses
             THEN /\ firstTerminal' = res'
                  /\ Push([json |-> res', hasBinary |-> FALSE])
             ELSE /\ pc' = "wait"
                  /\ UNCHANGED <<i, returnData, firstTerminal>>
    /\ UNCHANGED <<params, collected, extractedImages, request, attempt,
                   requests, waited>>

\* the status request rejects
PollError ==
    /\ pc = "pollawait"
    /\ inflight' = inflight - 1
    /\ Catch("request failed")
    /\ UNCHANGED <<params, collected, extractedImages, request, polling>>

\* PollWait with the loop condition attempt <= 40
PollWaitOneMore ==
    /\ pc = "wait"
    /\ waited' = waited + PollIntervalMs
    /\ attempt' = attempt + 1
    /\ IF attempt + 1 <= MaxAttempts
       THEN /\ pc' = "poll"
            /\ UNCHANGED <<i, returnData>>
       ELSE Push([json |-> res, hasBinary |-> FALSE])
    /\ UNCHANGED <<params, collected, extractedImages, request, inflight,
                   res, requests, firstTerminal>>

\* await new Promise(resolve => setTimeout(resolve, 15000)); attempt++
PollWait ==
    /\ pc = "wait"
    /\ waited' = waited + PollIntervalMs
    /\ attempt' = attempt + 1
    /\ IF attempt + 1 < MaxAttempts
       THEN /\ pc' = "poll"
            /\ UNCHANGED <<i, returnData>>
       ELSE Push([json |-> res, hasBinary |-> FALSE])
    /\ UNCHANGED <<params, collected, extractedImages, request, inflight,
                   res, requests, firstTerminal>>

Next ==
    \/ StartItem
    \/ Return
    \/ Collect
    \/ Extract
    \/ SendRequest
    \/ ReceiveOk
    \/ ReceiveNoImage
    \/ ReceiveError
    \/ PollSend
    \/ PollReceive
    \/ PollError
    \/ PollWait

Spec == Init /\ [][Next]_vars

TypeOK ==
    /\ i \in 0..Len(items)
    /\ pc \in {"loop", "collect", "extract", "request", "await", "poll",
               "pollawait", "wait", "done", "thrown"}
    /\ inflight \in 0..1
    /\ attempt \in 0..MaxAttempts

\* ------------------------------------------------------------------------
\* The designed source mode 'all', run on its own
\* ------------------------------------------------------------------------

\* the orders in which upstream nodes can be connected to an input
Orderings ==
    {s \in UNION {[1..n -> Range(UpstreamNodes)] : n \in 0..Len(UpstreamNodes)} :
        \A a, b \in 1..Len(s) : a # b => s[a] # s[b]}

\* position of a node in the order the connections respect
Rank(n) ==
    IF n = ThisNode THEN 0
    ELSE CHOOSE k \in 1..Len(UpstreamNodes) : UpstreamNodes[k] = n

\* the workflows: every node is fed by nodes further upstream
Workflows ==
    {wf \in [{ThisNode} \cup Range(UpstreamNodes) -> Orderings] :
        \A n \in DOMAIN wf : \A p \in Range(wf[n]) : Rank(p) > Rank(n)}

InitDesign ==
    /\ items \in InputChoices
    /\ i \in 0..1
    /\ workflow \in Workflows
    /\ binarySourceMode = "all"
    /\ designed = NotDesigned
    /\ nodeValues = NoValues
    /\ pc = "design"
    /\ mode = "text"
    /\ modeParameter = [k \in 1..Len(items) |-> "text"]
    /\ videoOperation = "create"
    /\ imageModel = "gemini-3-pro-image"
    /\ smartWait = TRUE
    /\ sourceNodeNames = <<>>
    /\ binaryPropertyName = DefaultPropNames
    /\ continueOnFail = FALSE
    /\ returnData = <<>>
    /\ collected = NothingCollected
    /\ extractedImages = <<>>
    /\ request = NoRequest
    /\ inflight = 0
    /\ attempt = 0
    /\ res = None
    /\ requests = 0
    /\ waited = 0
    /\ firstTerminal = None

\* await collectBinaryFromNodes(this, i, 'all', specifiedNodes) of the design
DesignCollect ==
    /\ pc = "design"
    /\ designed' = DesignCollectBinaryFromNodes(items, i, binarySourceMode,
                        ParseNameList(sourceNodeNames),
                        getExecuteData(workflow))
    /\ pc' = "designed"
    /\ UNCHANGED <<items, mode, modeParameter, videoOperation, imageModel,
                   smartWait, binarySourceMode, sourceNodeNames,
                   binaryPropertyName, continueOnFail, workflow, nodeValues,
                   i, returnData, collected, extractedImages, request, inflight,
                   polling>>

NextDesign == DesignCollect

SpecDesign == InitDesign /\ [][NextDesign]_vars

\* ------------------------------------------------------------------------
\* The parameter form of the node in the editor
\* ------------------------------------------------------------------------

\* everything but the values of the form
run == <<items, mode, modeParameter, videoOperation, imageModel, smartWait,
         binarySourceMode, sourceNodeNames, binaryPropertyName,
         continueOnFail, workflow, designed, i, pc, returnData, collected,
         extractedImages, request, inflight, polling>>

\* the node is added to a workflow: every displayed parameter has its default
InitForm ==
    /\ nodeValues = getNodeParameters(NoValues, 1, NoValues)
    /\ pc = "form"
    /\ items = <<>>
    /\ i = 0
    /\ workflow = NoWorkflow
    /\ designed = NotDesigned
    /\ mode = "text"
    /\ modeParameter = <<>>
    /\ videoOperation = "create"
    /\ imageModel = "gemini-3-pro-image"
    /\ smartWait = TRUE
    /\ binarySourceMode = "current"
    /\ sourceNodeNames = <<>>
    /\ binaryPropertyName = DefaultPropNames
    /\ continueOnFail = FALSE
    /\ returnData = <<>>
    /\ collected = NothingCollected
    /\ extractedImages = <<>>
    /\ request = NoRequest
    /\ inflight = 0
    /\ attempt = 0
    /\ res = None
    /\ requests = 0
    /\ waited = 0
    /\ firstTerminal = None

\* the user gives a displayed parameter a value
SetValue ==
    /\ pc = "form"
    /\ \E k \in 1..Len(Properties) : \E value \in Properties[k].options :
          /\ displayParameter(nodeValues, Properties[k].displayOptions)
          /\ nodeValues' =
                 getNodeParameters([nodeValues EXCEPT ![Properties[k].name] = value],
                                   1, NoValues)
    /\ UNCHANGED run

NextForm == SetValue

SpecForm == InitForm /\ [][NextForm]_vars

\* ------------------------------------------------------------------------
\* Properties of collectBinaryFromNodes
\* ------------------------------------------------------------------------

\* the parsed parameters of the run
specifiedNodes == ParseNameList(sourceNodeNames)
propNames == ParseNameList(binaryPropertyName)

\* collectBinaryFromNodes has returned for item i in 'specified' mode
CollectedSpecified ==
    pc = "extract" /\ binarySourceMode = "specified"

\* a listed node that contributes nothing for item index itemIndex: its
\* lookup throws, it produced no items, or its chosen item has no binary
Ignored(nodeName, itemIndex) ==
    \/ nodeName \in MissingNodes
    \/ Len(NodeItems(nodeName)) = 0
    \/ LET n == Len(NodeItems(nodeName))
       IN ~NodeItems(nodeName)[IF itemIndex < n THEN itemIndex + 1 ELSE 1].hasBinary

\* the attachments of the chosen item of a node, in their own order
ChosenAttachments(nodeName, itemIndex) ==
    IF Ignored(nodeName, itemIndex) THEN <<>>
    ELSE LET n == Len(NodeItems(nodeName))
             b == NodeItems(nodeName)[IF itemIndex < n THEN itemIndex + 1
                                      ELSE 1].binary
         IN [k \in 1..Len(b) |-> b[k][2]]

RECURSIVE AllChosen(_, _)
\* the attachments of all listed nodes, in list order
AllChosen(list, itemIndex) ==
    IF list = <<>> THEN <<>>
    ELSE ChosenAttachments(Head(list), itemIndex)
             \o AllChosen(Tail(list), itemIndex)

\* the names data, data0, data1, ... written out
ExpectedNames == <<"data", "data0", "data1", "data2", "data3", "data4",
                   "data5", "data6", "data7", "data8", "data9", "data10">>

\* C1: in 'specified' mode the k-th collected attachment, counting over the
\* listed nodes in list order and each chosen item's properties in their
\* order, is stored under 'data' for k = 0 and under data(k-1) for k >= 1.
DeterministicNames ==
    CollectedSpecified =>
        LET flat == AllChosen(specifiedNodes, i) IN
        \A k \in 1..Len(flat) :
            /\ Has(collected.mergedBinary, ExpectedNames[k])
            /\ Get(collected.mergedBinary, ExpectedNames[k]) = flat[k]

\* C1 witness: four attachments of two nodes were merged, the second one
\* came from a property named 'data' and is now stored under data0
DeterministicNamesWitness ==
    /\ CollectedSpecified
    /\ specifiedNodes = <<"A", "B">>
    /\ i = 1
    /\ Len(collected.mergedBinary) = 4
    /\ Get(collected.mergedBinary, "data0") = imgBoth
    /\ Get(collected.mergedBinary, "data2") = imgGoneInline

\* C2: in 'specified' mode the merged mapping has one key per attachment
\* found and keeps every attachment: nothing is stored under a used name.
NameDeduplicated ==
    CollectedSpecified =>
        LET flat == AllChosen(specifiedNodes, i)
            merged == collected.mergedBinary
        IN /\ Cardinality(Keys(merged)) = Len(flat)
           /\ Len(merged) = Len(flat)
           /\ [k \in 1..Len(merged) |-> merged[k][2]] = flat

\* C2 witness: the same node is listed twice and its attachments are kept
\* twice, under four different names
NameDeduplicatedWitness ==
    /\ CollectedSpecified
    /\ specifiedNodes = <<"A", "A">>
    /\ Cardinality(Keys(collected.mergedBinary)) = 4

\* C3: in 'specified' mode an ignored node contributes nothing and stops
\* nothing: every listed node is looked up, and the result is the one of the
\* list without the ignored nodes.
IgnoredNodesSkipped ==
    CollectedSpecified =>
        LET kept == SelectSeq(specifiedNodes, LAMBDA n : ~Ignored(n, i))
            ref == collectBinaryFromNodes(items, i, "specified", kept)
        IN /\ collected.consulted = specifiedNodes
           /\ collected.mergedBinary = ref.mergedBinary
           /\ collected.bufferMap = ref.bufferMap
           /\ collected.binary = ref.binary

\* C3 witness: a node whose lookup throws stands between two nodes with
\* attachments, and the attachments of both are in the result
IgnoredNodesSkippedWitness ==
    /\ CollectedSpecified
    /\ specifiedNodes = <<"A", "M", "B">>
    /\ Len(collected.mergedBinary) = 4

\* C4: in 'current' mode the result is the binary of input item i (empty
\* when it has none), the buffer map is empty and no node is looked up.
CurrentModeReturnsInput ==
    (pc = "extract" /\ binarySourceMode = "current") =>
        /\ collected.binary = IF items[i + 1].hasBinary
                              THEN items[i + 1].binary ELSE <<>>
        /\ collected.bufferMap = <<>>
        /\ collected.consulted = <<>>

\* C4 witness: 'current' mode on the second input item, which has attachments
CurrentModeReturnsInputWitness ==
    /\ pc = "extract"
    /\ binarySourceMode = "current"
    /\ i = 1
    /\ Has(collected.binary, "data2")

\* C5: in 'specified' mode, when nothing was collected, the returned mapping
\* is the one 'current' mode returns for the same item.
FallbackToCurrent ==
    (CollectedSpecified /\ AllChosen(specifiedNodes, i) = <<>>) =>
        collected.binary =
            collectBinaryFromNodes(items, i, "current", <<>>).binary

\* C5 witness: only ignored nodes are listed and the input item's
\* attachments are returned
FallbackToCurrentWitness ==
    /\ CollectedSpecified
    /\ specifiedNodes = <<"M", "E", "N">>
    /\ Len(collected.binary) > 0
    /\ collected.binary = items[i + 1].binary

\* ------------------------------------------------------------------------
\* Properties of extractImagesFromBinary and of the requests
\* ------------------------------------------------------------------------

\* extractImagesFromBinary has returned for item i
Extracted == UsesBinary /\ pc \in {"request", "await"}

\* C6: with source mode 'current' the node forwards, for every item and
\* property-name list, the attachments the version without source modes
\* forwards, in the same order, and fails on the same items; so does the
\* 1.5.0 node.
BackwardCompatible ==
    (Extracted /\ binarySourceMode = "current") =>
        LET old == OldExecuteImages(items, i, propNames, mode) IN
        /\ ~old.error
        /\ Forwarded(extractedImages) = old.images
        /\ collectImagesFromNodes(items, i, propNames, MaxImagesOf(mode))
               = old.images

\* C7: a request carries at most 1 reference image in text mode, at most 3
\* in image mode and at most 1 in video-create mode.
RequestRespectsMaxImages ==
    /\ Extracted =>
          Len(extractedImages) <= (CASE mode = "text" -> 1
                                     [] mode = "image" -> 3
                                     [] OTHER -> 1)
    /\ pc = "await" =>
          /\ request.kind = "chat/completions" => Len(request.images) <= 1
          /\ request.kind = "generateContent" => Len(request.images) <= 3
          /\ request.kind = "images/generations" => Len(request.images) <= 3
          /\ request.kind = "create" => Len(request.images) <= 1

\* C7 witness: an image request with three reference images although the
\* listed properties hold four readable images
RequestRespectsMaxImagesWitness ==
    /\ pc = "await"
    /\ request.kind = "images/generations"
    /\ Len(request.images) = 3
    /\ Len(extractImagesFromBinary(items, request.item, collected.binary,
                                   propNames, 10, collected.bufferMap)) = 4

\* C8: the bytes of every extracted image come from the pre-read buffer of
\* its property name if there is one, otherwise from getBinaryDataBuffer if
\* the attachment has a storage id, otherwise from its inline data; an
\* attachment with none of the three yields no image.
ReadPriority ==
    Extracted =>
        /\ \A k \in 1..Len(extractedImages) :
              LET img == extractedImages[k]
                  p == img.propName
                  binaryData == Get(collected.binary, p)
              IN IF Has(collected.bufferMap, p)
                 THEN img.buffer = Get(collected.bufferMap, p)
                 ELSE IF binaryData.id # NoId
                 THEN /\ getBinaryDataBuffer(items, i, p).ok
                      /\ img.buffer = getBinaryDataBuffer(items, i, p).buffer
                 ELSE /\ binaryData.data # NoData
                      /\ img.buffer = Base64Decode(binaryData.data)
        /\ \A p \in Keys(collected.binary) :
              (/\ ~Has(collected.bufferMap, p)
               /\ Get(collected.binary, p).id = NoId
               /\ Get(collected.binary, p).data = NoData)
                  => \A k \in 1..Len(extractedImages) :
                         extractedImages[k].propName # p

\* C8 witness: of two extracted images one was read from the pre-read
\* buffers and one, an on-disk attachment without pre-read buffer, from
\* getBinaryDataBuffer
ReadPriorityWitness ==
    /\ Extracted
    /\ binarySourceMode = "specified"
    /\ \E a, b \in 1..Len(extractedImages) :
          /\ Has(collected.bufferMap, extractedImages[a].propName)
          /\ ~Has(collected.bufferMap, extractedImages[b].propName)
          /\ Get(collected.binary, extractedImages[b].propName).id # NoId

\* ------------------------------------------------------------------------
\* Properties of the smart wait
\* ------------------------------------------------------------------------

Polling == pc \in {"poll", "pollawait", "wait"}

\* C9: polling stops at the first completed/failed response: that response
\* is the item's output, and no status request follows it for the item.
StopsAtFirstTerminal ==
    /\ [](res.status \in TerminalStatuses =>
             /\ firstTerminal = res
             /\ ~Polling
             /\ Len(returnData) > 0
             /\ returnData[Len(returnData)].json = res
             /\ requests = res.n)
    /\ [][firstTerminal.status \in TerminalStatuses
             => requests' <= requests]_vars

\* C9 witness: the third response was the first terminal one and is the
\* output of the item
StopsAtFirstTerminalWitness ==
    /\ firstTerminal = [status |-> "failed", n |-> 3]
    /\ pc = "loop"
    /\ returnData[Len(returnData)].json = [status |-> "failed", n |-> 3]

\* what remains of the loop: each polling step makes it smaller
Remaining ==
    3 * (MaxAttempts - attempt)
        - (CASE pc = "pollawait" -> 1 [] pc = "wait" -> 2 [] OTHER -> 0)

\* C10: the smart wait issues at most 40 status requests per item, sleeps
\* 15 seconds after each non-terminal response and only then, at most 600
\* seconds in total, and every step brings the loop nearer to its end.
PollingBounded ==
    /\ [](/\ requests <= 40
          /\ waited <= 600000
          /\ Polling => Remaining > 0)
    /\ [][/\ pc = "wait" => waited' = waited + 15000
          /\ (waited' # waited /\ waited' # 0) =>
                 (pc = "wait" /\ res.status \notin TerminalStatuses)
          /\ (Polling /\ Polling') => Remaining' < Remaining]_vars

\* C10 witness: forty non-terminal responses, 600 seconds slept, and the
\* last response is the output of the item
PollingBoundedWitness ==
    /\ requests = 40
    /\ waited = 600000
    /\ pc = "loop"
    /\ returnData[Len(returnData)].json = [status |-> "in_progress", n |-> 40]

\* ------------------------------------------------------------------------
\* Properties of the loop of execute()
\* ------------------------------------------------------------------------

\* the steps in which the processing of item i throws
Throws == ReceiveNoImage \/ ReceiveError \/ PollError

\* C11: when the processing of item i throws and continue-on-fail is on,
\* exactly one item {json: {error: message}} is appended for item i, the
\* outputs of the earlier items stay as they are, and the loop goes on with
\* item i+1.
ErrorItemAppended ==
    [][(continueOnFail /\ Throws) =>
          /\ Len(returnData') = Len(returnData) + 1
          /\ SubSeq(returnData', 1, Len(returnData)) = returnData
          /\ DOMAIN returnData'[Len(returnData')].json = {"error"}
          /\ ~returnData'[Len(returnData')].hasBinary
          /\ i' = i + 1
          /\ pc' = "loop"]_vars

\* C11 witness: the second item failed after the first had succeeded; both
\* have their output and the loop has moved past them
ErrorItemAppendedWitness ==
    /\ continueOnFail
    /\ pc = "loop"
    /\ i = 2
    /\ Len(returnData) = 2
    /\ DOMAIN returnData[1].json # {"error"}
    /\ returnData[2].json = [error |-> "request failed"]

\* C12: the items are processed one after the other in index order, at most
\* one request is outstanding, and a request for an item is issued only
\* when every earlier item has its output or error recorded.
Sequential ==
    /\ [](inflight \in 0..1)
    /\ [][/\ i' \in {i, i + 1}
          /\ inflight' > inflight =>
                 /\ inflight = 0
                 /\ request'.item = i
                 /\ Len(returnData) = i
          /\ Len(returnData') > Len(returnData) =>
                 (inflight' = 0 \/ pc' = "thrown")]_vars

\* C12 witness: the request of the second item is outstanding, the output
\* of the first is recorded
SequentialWitness ==
    /\ pc = "await"
    /\ inflight = 1
    /\ i = 1
    /\ request.item = 1
    /\ Len(returnData) = 1

\* the endpoint the parameters of item k themselves ask for
OwnRequestKind(k) ==
    CASE modeParameter[k + 1] = "text" -> "chat/completions"
      [] modeParameter[k + 1] = "image" /\ IsGemini(imageModel) -> "generateContent"
      [] modeParameter[k + 1] = "image" -> "images/generations"
      [] modeParameter[k + 1] = "embeddings" -> "embeddings"
      [] OTHER -> videoOperation

\* C13: with continue-on-fail the output of item i is determined by item
\* i's own data and parameters and the responses to its own requests,
\* whatever items came before it: the request issued for item i is the one
\* its own parameters ask for, and it carries the item's index.
NoStateBetweenItems ==
    (continueOnFail /\ pc \in {"await", "pollawait"}) =>
        /\ request.item = i
        /\ request.kind = OwnRequestKind(i)

\* ------------------------------------------------------------------------
\* Properties of the designed source mode 'all'
\* ------------------------------------------------------------------------

RECURSIVE Within(_, _)
\* the nodes from which ThisNode is reached over at most d connections
Within(wf, d) ==
    IF d = 0 THEN {ThisNode}
    ELSE LET near == Within(wf, d - 1) IN
         near \cup UNION {Range(wf[n]) : n \in near}

\* every node from which ThisNode is reachable
AllUpstream(wf) == Within(wf, Len(UpstreamNodes)) \ {ThisNode}

\* the number of connections between an upstream node and ThisNode
Distance(wf, n) ==
    CHOOSE d \in 1..Len(UpstreamNodes) :
        n \in Within(wf, d) /\ n \notin Within(wf, d - 1)

\* C14: in source mode 'all' the designed collectBinaryFromNodes collects
\* from every node from which the current node is reachable, and visits
\* them from the nearest to the farthest.
AllModeCollectsAllUpstream ==
    pc = "designed" =>
        LET t == designed.targetNodeNames IN
        /\ Range(t) = AllUpstream(workflow)
        /\ \A a, b \in 1..Len(t) :
              a < b => Distance(workflow, t[a]) <= Distance(workflow, t[b])

\* ------------------------------------------------------------------------
\* Properties of the parameter form
\* ------------------------------------------------------------------------

\* the field of a parameter is shown
Displayed(name) ==
    \E k \in 1..Len(Properties) :
        /\ Properties[k].name = name
        /\ displayParameter(nodeValues, Properties[k].displayOptions)

AttachmentsOf(itemSeq) ==
    UNION {{itemSeq[n].binary[k][2] : k \in 1..Len(itemSeq[n].binary)} :
              n \in 1..Len(itemSeq)}

\* the bytes an attachment stands for
BytesOf(a) ==
    (IF a.id \in StoredIds THEN {FileBytes(a.id)} ELSE {})
        \cup (IF a.data # NoData THEN {Base64Decode(a.data)} ELSE {})

\* the bytes of the image attachments of the input and of the other nodes
ImageBytes ==
    UNION {BytesOf(a) :
              a \in {b \in AttachmentsOf(items)
                              \cup UNION {AttachmentsOf(NodeItems(n)) : n \in Nodes} :
                        IsImageMime(b.mimeType)}}

\* C16: only image attachments are forwarded: every reference image of a
\* request, in every mode and source mode, has the mime type and the bytes
\* of an attachment whose mimeType starts with 'image/'; so has every part
\* the image mode of the node without source modes sends.
OnlyImagesForwarded ==
    /\ Extracted =>
           \A k \in 1..Len(extractedImages) :
               /\ IsImageMime(extractedImages[k].mimeType)
               /\ extractedImages[k].buffer \in ImageBytes
    /\ (mode = "image" /\ pc = "request") =>
           LET parts == ImageModeParts(items, i, propNames).images IN
           \A k \in 1..Len(parts) : IsImageMime(parts[k].mimeType)

\* the name denotes an image attachment whose bytes can be read
ReadableImage(p) ==
    /\ Has(collected.binary, p)
    /\ IsImageMime(Get(collected.binary, p).mimeType)
    /\ \/ Has(collected.bufferMap, p)
       \/ /\ Get(collected.binary, p).id # NoId
          /\ getBinaryDataBuffer(items, i, p).ok
       \/ /\ Get(collected.binary, p).id = NoId
          /\ Get(collected.binary, p).data # NoData

\* the names the extracted images were read under
ExtractedNames == [k \in 1..Len(extractedImages) |-> extractedImages[k].propName]

\* C17: the extracted images are the first maxImages names of the parsed
\* 'binaryPropertyName' list that denote a readable image attachment, in
\* the order of the list.
ChosenInListOrder ==
    Extracted =>
        LET good == SelectSeq(propNames, ReadableImage)
            n == IF Len(good) < MaxImagesOf(mode) THEN Len(good)
                 ELSE MaxImagesOf(mode)
        IN ExtractedNames = SubSeq(good, 1, n)

\* C17 witness: three images taken in list order (file, data2, data), which
\* is not the order of the attachments, and a fourth readable name left out
ChosenInListOrderWitness ==
    /\ Extracted
    /\ mode = "image"
    /\ ExtractedNames = <<"file", "data2", "data">>
    /\ collected.binary[1][1] = "data"
    /\ Len(SelectSeq(propNames, ReadableImage)) = 4

\* the name denotes an image attachment whose read fails
UnreadableImage(p) ==
    /\ Has(collected.binary, p)
    /\ IsImageMime(Get(collected.binary, p).mimeType)
    /\ ~ReadableImage(p)

\* C18: an image attachment whose bytes cannot be read is skipped silently:
\* extraction never ends the item with an error, the unreadable name yields
\* no image and takes no place among the maxImages, and the names after it
\* are still tried.
UnreadableSkipped ==
    /\ [](Extracted =>
             \A a \in 1..Len(propNames) :
                 UnreadableImage(propNames[a]) =>
                     /\ \A k \in 1..Len(extractedImages) :
                            extractedImages[k].propName # propNames[a]
                     /\ \A b \in (a + 1)..Len(propNames) :
                            (/\ ReadableImage(propNames[b])
                             /\ Len(SelectSeq(SubSeq(propNames, 1, b - 1),
                                              ReadableImage))
                                    < MaxImagesOf(mode))
                                => \E k \in 1..Len(extractedImages) :
                                       extractedImages[k].propName = propNames[b])
    /\ [][pc = "extract" => (pc' = "request" /\ returnData' = returnData)]_vars

\* C18 witness: the first listed name is an unreadable image, the next
\* readable names fill all the places
UnreadableSkippedWitness ==
    /\ Extracted
    /\ Len(propNames) > 1
    /\ UnreadableImage(propNames[1])
    /\ Len(extractedImages) = MaxImagesOf(mode)
    /\ \A k \in 1..Len(extractedImages) :
           extractedImages[k].propName # propNames[1]

\* the item of a listed node that is used for item index itemIndex
UsedItem(nodeName, itemIndex) ==
    IF itemIndex < Len(NodeItems(nodeName)) THEN itemIndex ELSE 0

\* C19: in 'specified' mode, for item index i and a listed node with n > 0
\* items, the attachments of exactly one item are collected: item i when
\* i < n, otherwise item 0; the attachments of its other items are not.
UsesOneItem ==
    CollectedSpecified =>
        LET merged == {collected.mergedBinary[k][2] :
                          k \in 1..Len(collected.mergedBinary)}
            listed == {n \in Range(specifiedNodes) \ MissingNodes :
                          Len(NodeItems(n)) > 0}
            used == UNION {AttachmentsOf(<<NodeItems(n)[UsedItem(n, i) + 1]>>) :
                              n \in listed}
        IN /\ used \subseteq merged
           /\ \A n \in listed :
                 \A j \in 1..Len(NodeItems(n)) :
                     j # UsedItem(n, i) + 1 =>
                         \A a \in AttachmentsOf(<<NodeItems(n)[j]>>) :
                             a \in merged => a \in used

\* C19 witness: for the second item, node A gives its second item and node
\* B, which has one item only, its first; A's first item is left out
UsesOneItemWitness ==
    /\ CollectedSpecified
    /\ i = 1
    /\ {"A", "B"} \subseteq Range(specifiedNodes)
    /\ LET merged == {collected.mergedBinary[k][2] :
                          k \in 1..Len(collected.mergedBinary)}
       IN /\ imgMem \in merged
          /\ imgGone \in merged
          /\ imgDisk \notin merged

====
